---- MODULE Spec2Model ----
(***************************************************************************)
(* Model of the contributor pipeline of itu-web-archive:                   *)
(*   - scripts/fetch-contributors.js : fetchContributors (offline fetcher) *)
(*   - components/Footer.tsx         : Footer / formatContributors         *)
(* The two components share only the file public/contributors.json.        *)
(*                                                                         *)
(* Texts (HTTP bodies, the file) are sequences of tokens: "[" , one token  *)
(* per JSON object or null, "]" ; any other token is not JSON.  A file     *)
(* being written holds a prefix of the token sequence.                     *)
(***************************************************************************)
EXTENDS Integers, Sequences, FiniteSets, TLC

\* ---------------------------------------------------------------- bounds
\* Records in one provider response.
MaxRecords == 2
\* Tokens one write of writeFileSync's loop transfers.
ChunkTokens == 2
\* Requests a Footer may issue before the model stops counting.
MaxRequests == 2

\* ------------------------------------------------------------- JS values
\* JavaScript's undefined (the value of a missing property).
Undefined == "undefined"
\* JavaScript's null.
Null == [null |-> TRUE]

\* o.k for an object o: undefined when the property is missing.
Get(o, k) == IF k \in DOMAIN o THEN o[k] ELSE Undefined

IsArray(v) == v.kind = "array"

ArrayOf(items) == [kind |-> "array", items |-> items]
ObjectOf(o) == [kind |-> "object", v |-> o]
NullValue == [kind |-> "null"]

\* ------------------------------------------------------------ JSON texts
LBracket == [t |-> "["]
RBracket == [t |-> "]"]
NullTok == [t |-> "null"]
ObjTok(o) == [t |-> "obj", v |-> o]
HtmlTok == [t |-> "<html>"]

\* JSON.stringify of an object omits the properties whose value is undefined.
DropUndefined(o) == [k \in {j \in DOMAIN o : o[j] # Undefined} |-> o[k]]

ItemTok(c) == IF c = Null THEN NullTok ELSE ObjTok(DropUndefined(c))

\* JSON.stringify(array, null, 2)
JSONstringify(items) ==
  <<LBracket>> \o [i \in 1..Len(items) |-> ItemTok(items[i])] \o <<RBracket>>

IsItemTok(tok) == tok.t \in {"obj", "null"}

TokItem(tok) == IF tok.t = "null" THEN Null ELSE tok.v

\* JSON.parse / Response.json(): ok = FALSE stands for the SyntaxError.
JSONparse(text) ==
  IF Len(text) = 1 /\ IsItemTok(text[1])
  THEN [ok |-> TRUE,
        value |-> IF text[1].t = "null" THEN NullValue ELSE ObjectOf(text[1].v)]
  ELSE IF /\ Len(text) >= 2
          /\ text[1] = LBracket
          /\ text[Len(text)] = RBracket
          /\ \A i \in 2..(Len(text) - 1) : IsItemTok(text[i])
       THEN [ok |-> TRUE,
             value |-> ArrayOf([i \in 1..(Len(text) - 2) |-> TokItem(text[i + 1])])]
       ELSE [ok |-> FALSE, value |-> NullValue]

\* ------------------------------------------------------- fetcher: inputs
REPO_OWNER == "keepdying"

Types == {"User", "Bot", "Organization", Undefined}
Logins == {"keepdying", "a", "b", Undefined}

\* The provider's profile URL of an account.
HtmlUrl(login) ==
  IF login = Undefined THEN Undefined ELSE "https://github.com/" \o login

ProviderRecords ==
  {DropUndefined([type |-> t, login |-> l, html_url |-> HtmlUrl(l)]) :
     t \in Types, l \in Logins} \cup {Null}

SeqsUpTo(S, n) == UNION {[1..k -> S] : k \in 0..n}

ProviderBodies ==
  {JSONstringify(items) : items \in SeqsUpTo(ProviderRecords, MaxRecords)}
    \cup {<<ObjTok([message |-> "API rate limit exceeded"])>>, <<HtmlTok>>}

Statuses == {200, 403}

StatusText(status) == IF status = 200 THEN "OK" ELSE "Forbidden"

NoResponse == [kind |-> "none"]

ProviderResponses ==
  {[kind |-> "error"]} \cup
  {[kind |-> "http", status |-> s, body |-> b] : s \in Statuses, b \in ProviderBodies}

\* ------------------------------------------------------ fetcher: pipeline
ResponseOk_Unchecked(status) == TRUE

\* response.ok
ResponseOk(status) == status \in 200..299

FilterUsers_NotBot(items) == SelectSeq(items, LAMBDA c : Get(c, "type") # "Bot")

\* contributors.filter(contributor => contributor.type === 'User')
FilterUsers(items) == SelectSeq(items, LAMBDA c : Get(c, "type") = "User")

\* contributor => ({username: contributor.login, profileUrl: contributor.html_url})
Project(c) == [username |-> Get(c, "login"), profileUrl |-> Get(c, "html_url")]

MapProject(items) == [i \in 1..Len(items) |-> Project(items[i])]

ownerExists(formatted) ==
  \E i \in 1..Len(formatted) : formatted[i].username = REPO_OWNER

OwnerRecord ==
  [username |-> REPO_OWNER, profileUrl |-> "https://github.com/" \o REPO_OWNER]

EnsureOwner_Push(formatted) ==
  IF ~ownerExists(formatted) THEN formatted \o <<OwnerRecord>> ELSE formatted

EnsureOwner_Never(formatted) == formatted

\* if (!ownerExists) formattedContributors.unshift({...})
EnsureOwner(formatted) ==
  IF ~ownerExists(formatted) THEN <<OwnerRecord>> \o formatted ELSE formatted

\* Lines 12-39 of fetchContributors: the error thrown, if any, and the list
\* that reaches the write step.
Pipeline(r) ==
  IF r.kind = "error"
  THEN [error |-> "fetch failed", formatted |-> <<>>]
  ELSE IF ~ResponseOk(r.status)
  THEN [error |-> "GitHub API error: " \o ToString(r.status) \o " "
                     \o StatusText(r.status),
        formatted |-> <<>>]
  ELSE LET parsed == JSONparse(r.body) IN
       IF ~parsed.ok
       THEN [error |-> "Unexpected token", formatted |-> <<>>]
       ELSE IF ~IsArray(parsed.value)
       THEN [error |-> "contributors.filter is not a function", formatted |-> <<>>]
       ELSE IF \E i \in 1..Len(parsed.value.items) : parsed.value.items[i] = Null
       THEN [error |-> "Cannot read properties of null", formatted |-> <<>>]
       ELSE [error |-> "",
             formatted |-> EnsureOwner(MapProject(FilterUsers(parsed.value.items)))]

CatchOutcome_Rethrow(error) ==
  IF error = "ENOSPC: no space left on device, write" THEN "rejected" ELSE "resolved"

\* The catch block of fetchContributors: how the async function settles
\* after an error was thrown inside the try block.
CatchOutcome(error) == "resolved"

\* -------------------------------------------------------------- the file
Absent == [exists |-> FALSE, text |-> <<>>]
FileOf(text) == [exists |-> TRUE, text |-> text]

PriorArtifacts ==
  {Absent,
   FileOf(JSONstringify(<<OwnerRecord>>)),
   FileOf(JSONstringify(<<[username |-> "a", profileUrl |-> HtmlUrl("a")], OwnerRecord>>))}

\* ------------------------------------------------------ Footer: rendering
basePath == "/itu-web-archive"

\* The source's Turkish strings, with the dotless i written as i.
FallbackPhrase == "@keepdying hayratidir"
Suffix == " hayratidir."

\* A rendered text node and a rendered <Link>.
Text(s) == [tag |-> "#text", text |-> s]

\* JSX renders undefined as nothing.
JsxText(v) == IF v = Undefined THEN "" ELSE v

ContributorLink(contributor) ==
  [tag |-> "a",
   href |-> Get(contributor, "profileUrl"),
   target |-> "_blank",
   rel |-> "noopener",
   text |-> "@" \o JsxText(Get(contributor, "username"))]

RepoLink ==
  [tag |-> "a",
   href |-> "https://github.com/keepdying/itu-web-archive",
   target |-> "_blank",
   rel |-> "noopener noreferrer",
   text |-> "GitHub Repository"]

Separator_OffByOne(index, length) ==
  IF index < length - 1
  THEN <<Text(IF index = length - 1 THEN " ve " ELSE ", ")>>
  ELSE <<>>

\* index < contributors.length - 1 && (index === contributors.length - 2 ? " ve " : ", ")
\* for the 0-based index of an entry; false renders as nothing.
Separator(index, length) ==
  IF index < length - 1
  THEN <<Text(IF index = length - 2 THEN " ve " ELSE ", ")>>
  ELSE <<>>

\* The <React.Fragment> of one entry (0-based index).
Fragment(items, index) ==
  <<ContributorLink(items[index + 1])>> \o Separator(index, Len(items))

RECURSIVE MapFragments(_, _)
\* contributors.map(...) flattened, from 0-based index on.
MapFragments(items, index) ==
  IF index >= Len(items) THEN <<>>
  ELSE Fragment(items, index) \o MapFragments(items, index + 1)

\* Whether evaluating formatContributors() throws a TypeError for the state
\* value: null has no .length, an object has no .map, a null entry has no
\* .username .
FormatThrows(contributors) ==
  \/ contributors.kind = "null"
  \/ /\ contributors.kind = "object"
     /\ ("length" \notin DOMAIN contributors.v \/ contributors.v["length"] # 0)
  \/ /\ contributors.kind = "array"
     /\ \E i \in 1..Len(contributors.items) : contributors.items[i] = Null

formatContributors(contributors) ==
  IF contributors.kind = "object" \/ Len(contributors.items) = 0
  THEN <<Text(FallbackPhrase)>>
  ELSE MapFragments(contributors.items, 0) \o <<Text(Suffix)>>

\* The children of <Typography>: {formatContributors()} -{" "}<Link>...</Link>
Render(contributors) ==
  IF FormatThrows(contributors)
  THEN [threw |-> TRUE, out |-> <<>>]
  ELSE [threw |-> FALSE,
        out |-> formatContributors(contributors) \o <<Text(" -"), Text(" "), RepoLink>>]

EffectRuns_NoDeps(renderCount) == TRUE

\* useEffect(..., []): the effect runs after the first render only.
EffectRuns(renderCount) == renderCount = 1

\* Bodies a static host may send with a 404.
ErrorBodies == {<<HtmlTok>>, <<ObjTok([message |-> "Not Found"])>>}

VARIABLES
  pc,        \* fetcher: "start", "writing", "done"
  resp,      \* the provider response of this run
  file,      \* public/contributors.json
  file0,     \* its content before the run
  buf,       \* the text handed to writeFileSync
  writes,    \* number of writeFileSync calls
  outcome,   \* how the promise of fetchContributors settled
  thrown,    \* message of the error thrown inside the try block, "" if none
  log,       \* console output
  fpc,       \* Footer: "unmounted", "pending", "loaded", "rejected", "crashed"
  contributors, \* the Footer's state value
  renders,   \* number of renders of the Footer
  requests,  \* number of requests the Footer issued
  setCalls,  \* number of setContributors calls
  fres       \* the response the Footer's request received

fetcherVars == <<pc, resp, file, file0, buf, writes, outcome, thrown, log>>
footerVars == <<fpc, contributors, renders, requests, setCalls, fres>>
vars == <<pc, resp, file, file0, buf, writes, outcome, thrown, log,
          fpc, contributors, renders, requests, setCalls, fres>>

Init ==
  /\ pc = "start"
  /\ resp = NoResponse
  /\ file \in PriorArtifacts
  /\ file0 = file
  /\ buf = <<>>
  /\ writes = 0
  /\ outcome = "pending"
  /\ thrown = ""
  /\ log = <<"Fetching contributors from GitHub API...">>
  /\ fpc = "unmounted"
  /\ contributors = ArrayOf(<<>>)
  /\ renders = 0
  /\ requests = 0
  /\ setCalls = 0
  /\ fres = NoResponse

ErrorLog(error) ==
  <<"Error fetching contributors: " \o error, "Keeping existing contributors.json file">>

\* The catch block: log the error, keep the file, settle the promise.
Catch(error) ==
  /\ thrown' = error
  /\ log' = log \o ErrorLog(error)
  /\ outcome' = CatchOutcome(error)
  /\ pc' = "done"

\* A run in which an error is thrown before the write step (lines 12-39).
FetchFail ==
  /\ pc = "start"
  /\ \E r \in ProviderResponses :
       /\ Pipeline(r).error # ""
       /\ resp' = r
       /\ Catch(Pipeline(r).error)
  /\ UNCHANGED <<file, file0, buf, writes>>
  /\ UNCHANGED footerVars

\* Lines 12-43 when writeFileSync cannot open the file for writing: the
\* error is thrown before the file is touched.
FetchOpenFail ==
  /\ pc = "start"
  /\ \E r \in ProviderResponses :
       /\ Pipeline(r).error = ""
       /\ resp' = r
       /\ buf' = JSONstringify(Pipeline(r).formatted)
  /\ writes' = writes + 1
  /\ Catch("ENOENT: no such file or directory, open")
  /\ UNCHANGED <<file, file0>>
  /\ UNCHANGED footerVars

\* Lines 12-43 up to the point where writeFileSync has opened the file
\* with flag 'w': the file exists and is empty.
FetchOpenWrite ==
  /\ pc = "start"
  /\ \E r \in ProviderResponses :
       /\ Pipeline(r).error = ""
       /\ resp' = r
       /\ buf' = JSONstringify(Pipeline(r).formatted)
  /\ writes' = writes + 1
  /\ file' = FileOf(<<>>)
  /\ pc' = "writing"
  /\ UNCHANGED <<file0, outcome, thrown, log>>
  /\ UNCHANGED footerVars

Min(a, b) == IF a < b THEN a ELSE b

SuccessLog(n) ==
  <<"Successfully fetched " \o ToString(n) \o " contributors",
    "Written to public/contributors.json">>

\* writeFileSync's write loop: the next chunk reaches the file; after the
\* last one the function returns and lines 49-50 run.
WriteChunk ==
  /\ pc = "writing"
  /\ LET n == Min(Len(buf) - Len(file.text), ChunkTokens)
         text == SubSeq(buf, 1, Len(file.text) + n)
     IN /\ file' = FileOf(text)
        /\ IF text = buf
           THEN /\ pc' = "done"
                /\ outcome' = "resolved"
                /\ log' = log \o SuccessLog(Len(buf) - 2)
           ELSE UNCHANGED <<pc, outcome, log>>
  /\ UNCHANGED <<resp, file0, buf, writes, thrown>>
  /\ UNCHANGED footerVars

\* A write of writeFileSync throws (disk full, I/O error): the error is
\* caught at line 51 and the file keeps what was written so far.
WriteFail ==
  /\ pc = "writing"
  /\ Catch("ENOSPC: no space left on device, write")
  /\ UNCHANGED <<resp, file, file0, buf, writes>>
  /\ UNCHANGED footerVars

\* ------------------------------------------------------- Footer: actions
\* The first render of a mounted Footer and its effect: the request for
\* `${basePath}/contributors.json` is issued.
FooterMount ==
  /\ fpc = "unmounted"
  /\ renders' = 1
  /\ requests' = IF EffectRuns(1) THEN requests + 1 ELSE requests
  /\ fpc' = "pending"
  /\ UNCHANGED <<contributors, setCalls, fres>>
  /\ UNCHANGED fetcherVars

\* The request fails (network error): the promise chain rejects and no
\* handler runs.
FooterNetworkError ==
  /\ fpc = "pending"
  /\ fpc' = "rejected"
  /\ fres' = [kind |-> "error"]
  /\ UNCHANGED <<contributors, renders, requests, setCalls>>
  /\ UNCHANGED fetcherVars

\* .then((res) => res.json()).then(setContributors) for a response with
\* the given body, followed by the re-render the state change causes.
Settle(body) ==
  LET parsed == JSONparse(body) IN
  IF ~parsed.ok
  THEN /\ fpc' = "rejected"
       /\ UNCHANGED <<contributors, renders, requests, setCalls>>
  ELSE /\ contributors' = parsed.value
       /\ setCalls' = setCalls + 1
       /\ renders' = renders + 1
       /\ IF Render(parsed.value).threw
          THEN fpc' = "crashed" /\ UNCHANGED requests
          ELSE IF EffectRuns(renders + 1) /\ requests < MaxRequests
          THEN fpc' = "pending" /\ requests' = requests + 1
          ELSE fpc' = "loaded" /\ UNCHANGED requests

\* The host answers with the current content of the file.
FooterResponse ==
  /\ fpc = "pending"
  /\ file.exists
  /\ fres' = [kind |-> "http", status |-> 200, body |-> file.text]
  /\ Settle(file.text)
  /\ UNCHANGED fetcherVars

\* The host has no file and answers 404 with an error body.
FooterNotFound ==
  /\ fpc = "pending"
  /\ ~file.exists
  /\ \E body \in ErrorBodies :
       /\ fres' = [kind |-> "http", status |-> 404, body |-> body]
       /\ Settle(body)
  /\ UNCHANGED fetcherVars

Next ==
  \/ FetchFail
  \/ FetchOpenFail
  \/ FetchOpenWrite
  \/ WriteChunk
  \/ WriteFail
  \/ FooterMount
  \/ FooterNetworkError
  \/ FooterResponse
  \/ FooterNotFound

Spec == Init /\ [][Next]_vars
\* ================================================================ claims
\* The run wrote the artifact completely.
Written == pc = "done" /\ thrown = ""

\* The artifact as a reader parses it from the file.
Artifact == JSONparse(file.text).value.items

\* The records of the provider's response, when it is a JSON array.
RespItems == JSONparse(resp.body).value.items

RespIsArrayOfObjects ==
  /\ resp.kind = "http"
  /\ JSONparse(resp.body).ok
  /\ JSONparse(resp.body).value.kind = "array"
  /\ \A i \in 1..Len(RespItems) : RespItems[i] # Null

\* The provider records of type 'User', in provider order.
UserItems == SelectSeq(RespItems, LAMBDA c : "type" \in DOMAIN c /\ c.type = "User")

HasLogin(c, l) == "login" \in DOMAIN c /\ c.login = l

OwnerInResponse == \E i \in 1..Len(UserItems) : HasLogin(UserItems[i], REPO_OWNER)

\* The entry a reader of the artifact sees for a provider record.
EntryOf(c) ==
  [k \in {j \in {"username", "profileUrl"} :
            (IF j = "username" THEN "login" ELSE "html_url") \in DOMAIN c}
     |-> IF k = "username" THEN c.login ELSE c.html_url]

\* C1: the written artifact holds no two entries with the same username.
C1_UniqueUsernames ==
  Written =>
    \A i, j \in 1..Len(Artifact) :
      (i # j /\ "username" \in DOMAIN Artifact[i] /\ "username" \in DOMAIN Artifact[j])
        => Artifact[i].username # Artifact[j].username

\* C2: when the response holds no 'User' record of the owner, the written
\* artifact is the owner's record (profileUrl https://github.com/keepdying)
\* followed by the 'User' records in provider order, and the owner occurs
\* exactly once.
C2_OwnerPrepended ==
  (Written /\ ~OwnerInResponse) =>
    /\ Len(Artifact) = Len(UserItems) + 1
    /\ Artifact[1] = [username |-> "keepdying", profileUrl |-> "https://github.com/keepdying"]
    /\ \A i \in 1..Len(UserItems) : Artifact[i + 1] = EntryOf(UserItems[i])
    /\ Cardinality({i \in 1..Len(Artifact) : Get(Artifact[i], "username") = REPO_OWNER}) = 1

C2_Witness ==
  /\ Written
  /\ ~OwnerInResponse
  /\ Len(UserItems) >= 1
  /\ \E i \in 1..Len(RespItems) : HasLogin(RespItems[i], REPO_OWNER)

\* C3: the entries of the written artifact, after a synthesized owner
\* record if there is one, are exactly the projections of the records of
\* type 'User'; when no record has type 'User' the artifact is the owner's
\* record alone.
C3_OnlyUsers ==
  Written =>
    LET synth == IF OwnerInResponse THEN 0 ELSE 1 IN
    /\ Len(Artifact) = Len(UserItems) + synth
    /\ \A i \in 1..Len(UserItems) : Artifact[i + synth] = EntryOf(UserItems[i])
    /\ (Len(UserItems) = 0 => Artifact = <<OwnerRecord>>)

C3_Witness ==
  /\ Written
  /\ Len(RespItems) >= 2
  /\ \A i \in 1..Len(RespItems) : Get(RespItems[i], "type") = "Bot"
  /\ Artifact = <<OwnerRecord>>

\* The response makes the run fail before the write step: network error,
\* non-2xx status, or a body that is not a JSON array of records.
PreWriteFailure ==
  \/ resp.kind = "error"
  \/ resp.kind = "http" /\ (resp.status < 200 \/ resp.status > 299)
  \/ resp.kind = "http" /\ ~RespIsArrayOfObjects

\* C4: a run that fails before the write step leaves the file as it was
\* and never calls the write; no run writes more than once.
C4_NoWriteOnFailure ==
  /\ writes <= 1
  /\ (pc = "done" /\ PreWriteFailure) => (file = file0 /\ writes = 0 /\ thrown # "")

C4_Witness ==
  /\ pc = "done"
  /\ resp.kind = "http"
  /\ resp.status = 403
  /\ RespIsArrayOfObjects
  /\ Len(UserItems) >= 1
  /\ file = file0
  /\ file.exists

\* A writeFileSync call of the run threw.
WriteFailed == pc = "done" /\ writes = 1 /\ thrown # ""

\* C5 as stated: a failed write is not caught, it settles the run as a
\* failure for the invoking process.
C5_WriteFailurePropagates == WriteFailed => outcome = "rejected"

\* C5 amended: every failure of the run, a failed write included, is caught
\* and logged, and the run completes normally (the promise resolves).
C5_FailureSwallowed ==
  pc = "done" =>
    /\ outcome = "resolved"
    /\ thrown # "" => \E i \in 1..Len(log) : log[i] = "Error fetching contributors: " \o thrown

C5_Witness ==
  /\ pc = "done"
  /\ thrown = "ENOSPC: no space left on device, write"
  /\ outcome = "resolved"
  /\ file # file0
\* The Footer's load failed: network error, non-2xx status, or a body that
\* is not a JSON array of objects.
LoadFailed ==
  \/ fres.kind = "error"
  \/ /\ fres.kind = "http"
     /\ \/ fres.status < 200 \/ fres.status > 299
        \/ ~JSONparse(fres.body).ok
        \/ JSONparse(fres.body).value.kind # "array"
        \/ \E i \in 1..Len(JSONparse(fres.body).value.items) :
             JSONparse(fres.body).value.items[i] = Null

\* What the Footer shows for an empty list.
EmptyRendering == <<Text(FallbackPhrase), Text(" -"), Text(" "), RepoLink>>

\* C6: after a failed load the Footer is still in its initial empty state,
\* rendering does not throw, and the output is that of the empty list.
C6_FailureAbsorbed ==
  LoadFailed =>
    /\ contributors = ArrayOf(<<>>)
    /\ ~Render(contributors).threw
    /\ Render(contributors).out = EmptyRendering

\* The text of a rendered node sequence.
RECURSIVE TextOf(_)
TextOf(nodes) == IF nodes = <<>> THEN "" ELSE Head(nodes).text \o TextOf(Tail(nodes))

\* C7: a list of n >= 1 entries renders as n links '@username' in list
\* order with n-1 separators, " ve " before the last entry and ", " before
\* the others, then the suffix; the empty list renders as the fallback
\* phrase alone.
C7_Formatting ==
  (contributors.kind = "array") =>
    LET items == contributors.items
        n == Len(items)
        out == formatContributors(contributors)
    IN /\ n = 0 => out = <<Text(FallbackPhrase)>>
       /\ n >= 1 =>
            /\ Len(out) = 2 * n
            /\ \A i \in 1..n :
                 /\ out[2 * i - 1].tag = "a"
                 /\ out[2 * i - 1].text =
                      (IF "username" \in DOMAIN items[i] THEN "@" \o items[i].username ELSE "@")
                 /\ out[2 * i - 1].href = Get(items[i], "profileUrl")
            /\ \A i \in 1..(n - 1) :
                 out[2 * i] = Text(IF i = n - 1 THEN " ve " ELSE ", ")
            /\ out[2 * n] = Text(" hayratidir.")
       /\ (n = 3 /\ \A i \in 1..3 : "username" \in DOMAIN items[i]) =>
            TextOf(out) = "@" \o items[1].username \o ", @" \o items[2].username
                            \o " ve @" \o items[3].username \o " hayratidir."

C7_Witness ==
  /\ fpc = "loaded"
  /\ contributors.kind = "array"
  /\ Len(contributors.items) = 3
  /\ TextOf(formatContributors(contributors)) = "@keepdying, @a ve @b hayratidir."

\* C8: the artifact of a successful run parses to a list of at least one
\* entry, and the Footer renders it as links, not as the fallback phrase.
C8_RoundTrip ==
  Written =>
    LET parsed == JSONparse(file.text) IN
    /\ parsed.ok
    /\ parsed.value.kind = "array"
    /\ Len(parsed.value.items) >= 1
    /\ ~Render(parsed.value).threw
    /\ Render(parsed.value).out[1].tag = "a"
    /\ \A i \in 1..Len(Render(parsed.value).out) :
         Render(parsed.value).out[i] # Text(FallbackPhrase)
    /\ (fpc = "loaded" /\ fres.body = file.text) => contributors = parsed.value

C8_Witness ==
  /\ Written
  /\ file # file0
  /\ fpc = "loaded"
  /\ fres.body = file.text
  /\ Len(UserItems) = 0
  /\ Render(contributors).out[1].text = "@keepdying"

\* C9: whenever the file exists its content is a complete JSON list, the
\* previous artifact or the new one.
C9_FileAlwaysComplete ==
  file.exists =>
    /\ JSONparse(file.text).ok
    /\ JSONparse(file.text).value.kind = "array"
    /\ file = file0 \/ file.text = buf

\* C10: a mounted Footer issues one request; its state is set at most once,
\* only when that request completes; after the request has settled nothing
\* of the Footer changes again.
C10_OneShotLoad ==
  /\ [](requests <= 1 /\ setCalls <= 1 /\ (fpc # "unmounted" => requests = 1))
  /\ [][contributors' # contributors =>
          (fpc = "pending" /\ fpc' \in {"loaded", "crashed"} /\ setCalls' = 1)]_vars
  /\ [][(fpc \in {"loaded", "rejected", "crashed"}) => (UNCHANGED footerVars)]_vars
  /\ [][fpc = "pending" => (requests' = requests)]_vars

C10_Witness ==
  /\ fpc = "loaded"
  /\ requests = 1
  /\ setCalls = 1
  /\ Written
  /\ fres.body # file.text
====
